---- MODULE Spec2Model ----
(***************************************************************************)
(* Wallet session / network reconciliation / token registration controller *)
(* of src/src/App.js (the App component defined at lines 511-1121).        *)
(*                                                                         *)
(* The component state (useState cells) is the record `ui`.  Every async   *)
(* handler invocation is a task: it carries `env`, the values of the       *)
(* component state captured by the closure it was created in (a handler    *)
(* reads the state of the render that created it, and writes through the   *)
(* setters), and `pc`, the provider request it is suspended on.  One step  *)
(* of a task is: the wallet answers the pending request, and the handler   *)
(* runs on (as JavaScript does, without interruption) until it issues its  *)
(* next request or ends.  Responses reach the page in the order the wallet *)
(* produced them.                                                          *)
(***************************************************************************)
EXTENDS Integers, Sequences, FiniteSets, Bags, TLC

VARIABLES
  ui,            \* the component state (the useState cells of App)
  wallet,        \* the injected provider: its chain, known chains, accounts
  tasks,         \* the bag of handler invocations in flight
  listeners,     \* the closures registered by setupChainChangeListener
  events,        \* provider events emitted and not yet delivered to the page
  lastSwitch,    \* history: the switchToBSC call that returned in the last step
  ensureHist,    \* history: the ensureCorrectNetwork call that returned in the last step
  done,          \* history: the handler that ended in the last step
  lastReq,       \* history: the provider request handled in the last step
  lastEvent,     \* history: the provider event delivered in the last step
  clicks,        \* number of user actions on the page so far
  walletChanges, \* number of user actions in the wallet so far
  faults,        \* number of requests that failed in transport so far
  retries,       \* number of clicks on the Retry button so far
  ensureRuns,    \* history: ensureCorrectNetwork calls in a row that began and
                 \* ended on the target chain, no chain request between (0, 1, 2)
  startupDid,    \* history: what the startup runs (initializeApp) have done so far
  raw,           \* the value handed to getErrorMessage (classification on its own)
  classified     \* what that call of getErrorMessage did

vars == <<ui, wallet, tasks, listeners, events, lastSwitch, ensureHist, done,
          lastReq, lastEvent, clicks, walletChanges, faults, retries, ensureRuns,
          startupDid, raw, classified>>

-----------------------------------------------------------------------------
(* Bounds of the model *)

MaxTasks == 2
MaxClicks == 1
MaxWalletChanges == 1
MaxFaults == 1
MaxAttempts == 5
MaxRetryClicks == 2
MaxUserActions == 2

-----------------------------------------------------------------------------
(* Configuration of the program *)

Null == "null"

BSC_NETWORK ==
  [chainId |-> "0x38",
   chainName |-> "Binance Smart Chain",
   nativeCurrency |-> [name |-> "BNB", symbol |-> "BNB", decimals |-> 18],
   rpcUrls |-> <<"https://bsc-dataseed.binance.org/">>,
   blockExplorerUrls |-> <<"https://bscscan.com/">>]

USDT_CONFIG ==
  [address |-> "0x6D39a10d110CEe17F9afBe53383BD5aa308c6fd3",
   symbol |-> "USDT",
   decimals |-> 18,
   name |-> "Tether USD"]

ErrorTypes ==
  [NETWORK_ERROR |-> "NETWORK_ERROR",
   USER_REJECTED |-> "USER_REJECTED",
   PROVIDER_ERROR |-> "PROVIDER_ERROR",
   UNKNOWN_ERROR |-> "UNKNOWN_ERROR"]

maxRetries == 3

(* The chains the wallet can be on, and the accounts it can expose. *)
Chains == {"0x38", "0x1"}
Accounts == {"0xA1", "0xA2"}

getNetworkName(chainId) ==
  CASE chainId = "0x38" -> "Binance Smart Chain"
    [] chainId = "0x1" -> "Ethereum Mainnet"
    [] chainId = "0x89" -> "Polygon"
    [] OTHER -> "Unknown Network (chainId)"

-----------------------------------------------------------------------------
(* Errors.  An error value is [code, message]: code 0 stands for an error  *)
(* object without a code field, and message is the sequence of the words   *)
(* of the message (<<>>: no message).  includes(m, w) is case-sensitive    *)
(* as String.prototype.includes is; on the messages used here a word       *)
(* match and a substring match coincide.                                   *)

Err(code, message) == [code |-> code, message |-> message]

includes(message, word) == \E i \in 1..Len(message) : message[i] = word

UserFriendly ==
  [rejected |-> "Request was cancelled. You can try again anytime.",
   unsupported |-> "This feature is not supported by your current wallet. Please try a different wallet or update your current one.",
   notFound |-> "Network not found. We will try to add it automatically.",
   network |-> "Network connection issue. Please check your internet connection and try again.",
   timeout |-> "Request timed out. Please try again.",
   unknown |-> "Something went wrong. Please try again or refresh the page."]

(* Variant: the message is tested before the code. *)
getErrorMessage_messageFirst(error) ==
  IF includes(error.message, "network") THEN
    [type |-> ErrorTypes.NETWORK_ERROR,
     message |-> <<"Network", "connection", "error.">>,
     userFriendly |-> UserFriendly.network]
  ELSE IF includes(error.message, "timeout") THEN
    [type |-> ErrorTypes.NETWORK_ERROR,
     message |-> <<"Request", "timeout.">>,
     userFriendly |-> UserFriendly.timeout]
  ELSE IF error.code = 4001 THEN
    [type |-> ErrorTypes.USER_REJECTED,
     message |-> <<"User", "rejected", "the", "request.", "Please", "try", "again",
                   "if", "you", "want", "to", "proceed.">>,
     userFriendly |-> UserFriendly.rejected]
  ELSE IF error.code = -32601 THEN
    [type |-> ErrorTypes.PROVIDER_ERROR,
     message |-> <<"Method", "not", "supported", "by", "your", "wallet.">>,
     userFriendly |-> UserFriendly.unsupported]
  ELSE IF error.code = 4902 THEN
    [type |-> ErrorTypes.NETWORK_ERROR,
     message |-> <<"Network", "not", "found", "in", "wallet.">>,
     userFriendly |-> UserFriendly.notFound]
  ELSE
    [type |-> ErrorTypes.UNKNOWN_ERROR,
     message |-> IF error.message # <<>> THEN error.message
                 ELSE <<"An", "unexpected", "error", "occurred.">>,
     userFriendly |-> UserFriendly.unknown]

(* Variant: a message containing "timeout" gets the entry of a network error. *)
getErrorMessage_timeoutAsNetwork(error) ==
  IF error.code = 4001 THEN
    [type |-> ErrorTypes.USER_REJECTED,
     message |-> <<"User", "rejected", "the", "request.", "Please", "try", "again",
                   "if", "you", "want", "to", "proceed.">>,
     userFriendly |-> UserFriendly.rejected]
  ELSE IF error.code = -32601 THEN
    [type |-> ErrorTypes.PROVIDER_ERROR,
     message |-> <<"Method", "not", "supported", "by", "your", "wallet.">>,
     userFriendly |-> UserFriendly.unsupported]
  ELSE IF error.code = 4902 THEN
    [type |-> ErrorTypes.NETWORK_ERROR,
     message |-> <<"Network", "not", "found", "in", "wallet.">>,
     userFriendly |-> UserFriendly.notFound]
  ELSE IF includes(error.message, "network") \/ includes(error.message, "timeout") THEN
    [type |-> ErrorTypes.NETWORK_ERROR,
     message |-> <<"Network", "connection", "error.">>,
     userFriendly |-> UserFriendly.network]
  ELSE
    [type |-> ErrorTypes.UNKNOWN_ERROR,
     message |-> IF error.message # <<>> THEN error.message
                 ELSE <<"An", "unexpected", "error", "occurred.">>,
     userFriendly |-> UserFriendly.unknown]

getErrorMessage(error) ==
  IF error.code = 4001 THEN
    [type |-> ErrorTypes.USER_REJECTED,
     message |-> <<"User", "rejected", "the", "request.", "Please", "try", "again",
                   "if", "you", "want", "to", "proceed.">>,
     userFriendly |-> UserFriendly.rejected]
  ELSE IF error.code = -32601 THEN
    [type |-> ErrorTypes.PROVIDER_ERROR,
     message |-> <<"Method", "not", "supported", "by", "your", "wallet.">>,
     userFriendly |-> UserFriendly.unsupported]
  ELSE IF error.code = 4902 THEN
    [type |-> ErrorTypes.NETWORK_ERROR,
     message |-> <<"Network", "not", "found", "in", "wallet.">>,
     userFriendly |-> UserFriendly.notFound]
  ELSE IF includes(error.message, "network") THEN
    [type |-> ErrorTypes.NETWORK_ERROR,
     message |-> <<"Network", "connection", "error.">>,
     userFriendly |-> UserFriendly.network]
  ELSE IF includes(error.message, "timeout") THEN
    [type |-> ErrorTypes.NETWORK_ERROR,
     message |-> <<"Request", "timeout.">>,
     userFriendly |-> UserFriendly.timeout]
  ELSE
    [type |-> ErrorTypes.UNKNOWN_ERROR,
     message |-> IF error.message # <<>> THEN error.message
                 ELSE <<"An", "unexpected", "error", "occurred.">>,
     userFriendly |-> UserFriendly.unknown]

(* Errors the wallet rejects requests with. *)
ErrUserRejected == Err(4001, <<"User", "rejected", "the", "request.">>)
ErrUnsupported == Err(-32601, <<"Method", "not", "found">>)
ErrUnknownChain == Err(4902, <<"Unrecognized", "chain", "ID">>)
ErrNetwork == Err(0, <<"network", "error">>)
ErrInternal == Err(-32603, <<"Internal", "JSON-RPC", "error.">>)

(* Errors the program itself throws (new Error(...), no code). *)
ErrSwitchVerification == Err(0, <<"Network", "switch", "verification", "failed">>)
ErrAddVerification == Err(0, <<"Network", "addition", "verification", "failed">>)
ErrSwitchFailed ==
  Err(0, <<"Failed", "to", "switch", "to", "Binance", "Smart", "Chain.",
           "Please", "switch", "manually", "and", "try", "again.">>)

(* What a catch clause can receive: an object with a code and a message,  *)
(* either of which may be missing (code 0, message <<>>), a thrown string,  *)
(* or null / undefined (a promise rejected without a reason).  Reading     *)
(* error.code throws a TypeError when error is null or undefined; a string *)
(* has neither property.                                                   *)
RawObject(code, message) == [is |-> "object", code |-> code, message |-> message]
RawString(text) == [is |-> "string", code |-> 0, message |-> text]
RawNull == [is |-> "null", code |-> 0, message |-> <<>>]
RawUndefined == [is |-> "undefined", code |-> 0, message |-> <<>>]
NoRaw == [is |-> "none", code |-> 0, message |-> <<>>]

NoEntry == [type |-> "", message |-> <<>>, userFriendly |-> ""]
NotClassified == [called |-> FALSE, threw |-> "", entry |-> NoEntry]
Returned(v) == [called |-> TRUE, threw |-> "", entry |-> v]
Threw(e) == [called |-> TRUE, threw |-> e, entry |-> NoEntry]

getErrorMessage_call(error) ==
  IF error.is \in {"null", "undefined"} THEN Threw("TypeError")
  ELSE IF error.is = "string" THEN Returned(getErrorMessage(Err(0, <<>>)))
  ELSE Returned(getErrorMessage(Err(error.code, error.message)))

-----------------------------------------------------------------------------
(* Shapes *)

Undefined == "undefined"

InitialUi ==
  [account |-> Null, isConnected |-> FALSE, provider |-> FALSE, web3 |-> FALSE,
   status |-> <<>>, statusType |-> "", balance |-> <<0>>, isLoading |-> FALSE,
   currentNetwork |-> "", retryCount |-> 0]

(* The values a closure created in a render reads. *)
Closure(u) ==
  [provider |-> u.provider, web3 |-> u.web3, isConnected |-> u.isConnected,
   account |-> u.account, retryCount |-> u.retryCount]

Idle ==
  [kind |-> "idle", pc |-> "", env |-> Closure(InitialUi), stack |-> <<>>,
   log |-> <<>>, issued |-> {}, arg |-> Null, swMark |-> 0, swNet |-> FALSE, enMark |-> 0,
   enChain |-> "", enRead |-> "", swRet |-> "", op |-> "", attempts |-> 0,
   outcomes |-> <<>>]

NoParams == [none |-> TRUE]
Ok(v) == [ok |-> TRUE, val |-> v]
Fail(e) == [ok |-> FALSE, val |-> e]

NoRun == [kind |-> "none"]

(* A configuration: what a handler step reads and writes. *)
Tk(c) == c.tk
(* A status is the sequence of the pieces of the (template) string; the    *)
(* initial '' is <<>>.                                                     *)
SetStatusT(c, pieces, type) ==
  [c EXCEPT !.ui.status = pieces, !.ui.statusType = type]
SetStatus(c, msg, type) == SetStatusT(c, <<msg>>, type)
NumStr(n) ==
  CASE n = 0 -> "0" [] n = 1 -> "1" [] n = 2 -> "2" [] n = 3 -> "3" [] n = 4 -> "4"
    [] n = 5 -> "5" [] n = 6 -> "6" [] n = 7 -> "7" [] n = 8 -> "8" [] n = 9 -> "9"
    [] OTHER -> "many"
Await(c, pc) == [c EXCEPT !.tk.pc = pc]
Push(c, label) == [c EXCEPT !.tk.stack = <<label>> \o @]
Since(c, mark) == SubSeq(Tk(c).log, mark + 1, Len(Tk(c).log))
(* The sequence `log` is kept for the reconciliation call in progress only; *)
(* `issued` is the set of the requests the handler has issued so far.       *)
ForgetOrder(c) == [c EXCEPT !.tk.log = <<>>]

(* The current handler is set aside (it is suspended, or it has ended). *)
Stash(c) ==
  IF c.tk.kind = "idle" THEN c
  ELSE [c EXCEPT !.bag = @ (+) SetToBag({c.tk}), !.tk = Idle]

(* A new invocation of a handler created in the render with state `env`. *)
Spawn(c, kind, env) ==
  LET s == Stash(c) IN
  IF BagCardinality(s.bag) >= MaxTasks THEN [s EXCEPT !.ok = FALSE]
  ELSE [s EXCEPT !.tk = [Idle EXCEPT !.kind = kind, !.env = env]]

(* web3.utils.fromWei(balance, 'ether') then parseFloat(..).toFixed(4): the  *)
(* balance is counted in units of 10^13 wei, and the displayed string is     *)
(* <<whole, fraction>> with four fractional digits, rounded half up.  The    *)
(* initial and the fallback display '0' is <<0>>, a different string.        *)
toFixed4(units) ==
  LET q == (units + 5) \div 10 IN <<q \div 10000, q % 10000>>

BalanceOf(a) == CASE a = "0xA1" -> 12345 [] a = "0xA2" -> 70000 [] OTHER -> 0

-----------------------------------------------------------------------------
(* The functions of the component.  Each operator maps a configuration to  *)
(* the configuration in which the handler has run on to its next await.    *)
(* Ret(c, v) returns v from the current function to its caller.            *)

RECURSIVE Ret(_, _)

WatchAssetParams(withImage) ==
  [type |-> "ERC20",
   options |-> IF withImage
               THEN [address |-> USDT_CONFIG.address, symbol |-> USDT_CONFIG.symbol,
                     decimals |-> USDT_CONFIG.decimals,
                     image |-> "origin/new-tether-logo.png",
                     name |-> USDT_CONFIG.name]
               ELSE [address |-> USDT_CONFIG.address, symbol |-> USDT_CONFIG.symbol,
                     decimals |-> USDT_CONFIG.decimals, name |-> USDT_CONFIG.name]]

(* getBalance *)
getBalance(c, accountAddress) ==
  IF ~Tk(c).env.web3 THEN Ret(c, Undefined)
  ELSE IF accountAddress = Null THEN Ret(c, Undefined)
  ELSE Await(c, "getBalance")

(* Variant: a failed fetch is reported to the user. *)
getBalance_settled_reported(c, o) ==
  IF o.ok THEN Ret([c EXCEPT !.ui.balance = toFixed4(o.val)], Undefined)
  ELSE Ret(SetStatus([c EXCEPT !.ui.balance = <<0>>],
                     getErrorMessage(o.val).userFriendly, "error"), Undefined)

getBalance_settled(c, o) ==
  IF o.ok THEN Ret([c EXCEPT !.ui.balance = toFixed4(o.val)], Undefined)
  ELSE Ret([c EXCEPT !.ui.balance = <<0>>], Undefined)

(* switchToBSC *)
switchToBSC_return(c, v) ==
  LET c1 == [c EXCEPT !.lastSwitch =
               [kind |-> "switchToBSC", log |-> Since(c, Tk(c).swMark), ret |-> v,
                marked |-> Tk(c).swNet, caller |-> Tk(c).kind]] IN
  Ret([(IF Tk(c).stack # <<>> /\ Head(Tk(c).stack) = "en_afterSwitch" THEN c1
        ELSE ForgetOrder(c1)) EXCEPT !.tk.swRet = v], v)

switchToBSC(c) ==
  LET c1 == [c EXCEPT !.tk.swMark = Len(Tk(c).log),
                      !.tk.swNet = FALSE] IN
  IF ~Tk(c1).env.provider
  THEN switchToBSC_return(SetStatus(c1, "MetaMask not detected.", "error"), "false")
  ELSE Await(c1, "switch")

switchToBSC_success(c, msg) ==
  LET c1 == SetStatus(c, msg, "success")
      c2 == [c1 EXCEPT !.ui.currentNetwork = "Binance Smart Chain",
                       !.tk.swNet = TRUE] IN
  switchToBSC_return(c2, "true")

(* Variant: a failed addition of the chain ends the session. *)
switchToBSC_catchAdd_disconnects(c, addError) ==
  switchToBSC_return(
    SetStatus([c EXCEPT !.ui.account = Null, !.ui.isConnected = FALSE,
                        !.ui.balance = <<0>>],
              getErrorMessage(addError).userFriendly, "error"), "false")

switchToBSC_catchAdd(c, addError) ==
  switchToBSC_return(SetStatus(c, getErrorMessage(addError).userFriendly, "error"),
                     "false")

(* Variant: every failure of the switch request is answered by adding the chain. *)
switchToBSC_catchSwitch_anyCode(c, switchError) ==
  Await(SetStatus(c, "Adding Binance Smart Chain to MetaMask...", "info"), "add")

switchToBSC_catchSwitch(c, switchError) ==
  IF switchError.code = 4902
  THEN Await(SetStatus(c, "Adding Binance Smart Chain to MetaMask...", "info"), "add")
  ELSE switchToBSC_return(
         SetStatus(c, getErrorMessage(switchError).userFriendly, "error"), "false")

switchToBSC_switched(c, o) ==
  IF o.ok THEN Await(c, "switch_verify") ELSE switchToBSC_catchSwitch(c, o.val)

(* Variant: a switch request that returned is taken for a switch that happened. *)
switchToBSC_verified_unchecked(c, o) ==
  IF ~o.ok THEN switchToBSC_catchSwitch(c, o.val)
  ELSE switchToBSC_success(c, "Successfully switched to Binance Smart Chain!")

(* Variant: a chain that is not the target after the switch is added. *)
switchToBSC_verified_addsOnMismatch(c, o) ==
  IF ~o.ok THEN switchToBSC_catchSwitch(c, o.val)
  ELSE IF o.val = BSC_NETWORK.chainId
  THEN switchToBSC_success(c, "Successfully switched to Binance Smart Chain!")
  ELSE Await(SetStatus(c, "Adding Binance Smart Chain to MetaMask...", "info"), "add")

switchToBSC_verified(c, o) ==
  IF ~o.ok THEN switchToBSC_catchSwitch(c, o.val)
  ELSE IF o.val = BSC_NETWORK.chainId
  THEN switchToBSC_success(c, "Successfully switched to Binance Smart Chain!")
  ELSE switchToBSC_catchSwitch(c, ErrSwitchVerification)

switchToBSC_added(c, o) ==
  IF o.ok THEN Await(c, "add_verify") ELSE switchToBSC_catchAdd(c, o.val)

switchToBSC_addVerified(c, o) ==
  IF ~o.ok THEN switchToBSC_catchAdd(c, o.val)
  ELSE IF o.val = BSC_NETWORK.chainId
  THEN switchToBSC_success(c, "Binance Smart Chain added and switched successfully!")
  ELSE switchToBSC_catchAdd(c, ErrAddVerification)

(* ensureCorrectNetwork: it has no return statement with a value *)
(* The history kept of a call: the chain the provider was on when it was *)
(* called (enChain), what its read of the chain id gave (enRead), and the *)
(* requests it made; `runs` counts the calls in a row that began on the   *)
(* target chain and read it.                                              *)
ensureCorrectNetwork_return(c) ==
  LET onTarget == /\ Tk(c).env.provider
                  /\ Tk(c).enChain = BSC_NETWORK.chainId
                  /\ Tk(c).enRead = BSC_NETWORK.chainId
      runs == IF ~Tk(c).env.provider THEN c.runs
              ELSE IF ~onTarget THEN 0
              ELSE IF c.runs < 2 THEN c.runs + 1 ELSE 2
      c1 == [c EXCEPT !.ensureHist =
               [kind |-> "ensureCorrectNetwork", log |-> Since(c, Tk(c).enMark),
                ret |-> Undefined, provider |-> Tk(c).env.provider,
                startedOn |-> Tk(c).enChain, read |-> Tk(c).enRead,
                runs |-> runs, network |-> c.ui.currentNetwork],
                       !.runs = runs,
                       !.tk.enChain = "", !.tk.enRead = ""] IN
  Ret(ForgetOrder(c1), Undefined)

(* Variant: a call made while the page shows the target network returns *)
(* without asking the provider.                                         *)
ensureCorrectNetwork_cached(c) ==
  LET c1 == [c EXCEPT !.tk.enMark = Len(Tk(c).log),
                      !.tk.enChain = c.chain, !.tk.enRead = "none"] IN
  IF ~Tk(c1).env.provider \/ c.ui.currentNetwork = "Binance Smart Chain"
  THEN ensureCorrectNetwork_return(c1)
  ELSE Await(c1, "ensure_chainId")

ensureCorrectNetwork(c) ==
  LET c1 == [c EXCEPT !.tk.enMark = Len(Tk(c).log),
                      !.tk.enChain = c.chain, !.tk.enRead = "none"] IN
  IF ~Tk(c1).env.provider THEN ensureCorrectNetwork_return(c1)
  ELSE Await(c1, "ensure_chainId")

ensureCorrectNetwork_chainId(c, o) ==
  IF ~o.ok THEN ensureCorrectNetwork_return([c EXCEPT !.tk.enRead = "failed"])
  ELSE IF o.val # BSC_NETWORK.chainId
  THEN switchToBSC(Push(SetStatus([c EXCEPT !.tk.enRead = o.val],
                                  "Switching to Binance Smart Chain automatically...",
                                  "info"), "en_afterSwitch"))
  ELSE ensureCorrectNetwork_return(
         [c EXCEPT !.ui.currentNetwork = "Binance Smart Chain",
                   !.tk.enRead = o.val])

(* connectWallet *)
(* Variant: the loading flag is left as it is. *)
connectWallet_finally_keepsLoading(c) == Ret(c, Undefined)

connectWallet_finally(c) == Ret([c EXCEPT !.ui.isLoading = FALSE], Undefined)

(* Variant: the request is made whether a provider was found or not. *)
connectWallet_unguarded(c) == Await([c EXCEPT !.ui.isLoading = TRUE], "requestAccounts")

connectWallet(c) ==
  IF ~Tk(c).env.provider
  THEN Ret(SetStatus(c, "MetaMask not detected. Please install MetaMask.", "error"),
           Undefined)
  ELSE Await([c EXCEPT !.ui.isLoading = TRUE], "requestAccounts")

connectWallet_accounts(c, o) ==
  IF ~o.ok
  THEN connectWallet_finally(
         SetStatus(c, getErrorMessage(o.val).userFriendly, "error"))
  ELSE IF Len(o.val) > 0
  THEN ensureCorrectNetwork(
         Push([c EXCEPT !.ui.account = o.val[1], !.ui.isConnected = TRUE,
                        !.tk.arg = o.val[1]], "cw_afterEnsure"))
  ELSE connectWallet_finally(c)

(* Variant: the connection is reported and the balance is not fetched. *)
connectWallet_afterEnsure_noBalance(c) ==
  connectWallet_finally(SetStatus(c, "Wallet connected successfully!", "success"))

connectWallet_afterEnsure(c) ==
  getBalance(Push(SetStatus(c, "Wallet connected successfully!", "success"),
                  "cw_afterBalance"), Tk(c).arg)

(* addTokenToMetaMask *)
addToken_finally(c) == Ret([c EXCEPT !.ui.isLoading = FALSE], Undefined)

(* Variant: every failure is reported with the one generic message. *)
addToken_catch_generic(c, error) ==
  addToken_finally(SetStatus(c, UserFriendly.unknown, "error"))

addToken_catch(c, error) ==
  addToken_finally(SetStatus(c, getErrorMessage(error).userFriendly, "error"))

addTokenToMetaMask(c) ==
  IF ~Tk(c).env.provider \/ ~Tk(c).env.isConnected
  THEN Ret(SetStatus(c, "Please connect your wallet first.", "error"), Undefined)
  ELSE Await(SetStatus([c EXCEPT !.ui.isLoading = TRUE],
                       "Ensuring you are on Binance Smart Chain...", "info"),
             "at_chainId")

addToken_chainId(c, o) ==
  IF ~o.ok THEN addToken_catch(c, o.val)
  ELSE IF o.val # BSC_NETWORK.chainId
  THEN switchToBSC(
         Push(SetStatus(c, "Switching to Binance Smart Chain before adding token...",
                        "info"), "at_afterSwitch"))
  ELSE Await(SetStatus(c, "Already on Binance Smart Chain. Adding token...", "info"),
             "watchAsset")

(* Variant: the result of switchToBSC is not looked at. *)
addToken_afterSwitch_unchecked(c, switchSuccess) ==
  Await(SetStatus(c, "Successfully switched to Binance Smart Chain. Now adding token...",
                  "success"), "watchAsset")

addToken_afterSwitch(c, switchSuccess) ==
  IF switchSuccess # "true" THEN addToken_catch(c, ErrSwitchFailed)
  ELSE Await(SetStatus(c, "Successfully switched to Binance Smart Chain. Now adding token...",
                       "success"), "watchAsset")

addToken_notAdded(c) ==
  addToken_finally(SetStatus(c, "Token was not added. Please try again.", "error"))

(* Variant: a falsy result is treated like a thrown error. *)
addToken_watched_fallbackOnFalsy(c, o) ==
  IF ~o.ok THEN Await(c, "watchAssetAlt")
  ELSE IF o.val
  THEN addToken_finally(
         SetStatus(c, "USDT token successfully added to MetaMask on Binance Smart Chain! The logo should appear in your wallet.",
                   "success"))
  ELSE Await(c, "watchAssetAlt")

addToken_watched(c, o) ==
  IF ~o.ok THEN Await(c, "watchAssetAlt")
  ELSE IF o.val
  THEN addToken_finally(
         SetStatus(c, "USDT token successfully added to MetaMask on Binance Smart Chain! The logo should appear in your wallet.",
                   "success"))
  ELSE addToken_notAdded(c)

(* Variant: a failed request without the image is made again. *)
addToken_watchedAlt_again(c, o) ==
  IF ~o.ok THEN Await(c, "watchAssetAlt")
  ELSE IF o.val
  THEN addToken_finally(
         SetStatus(c, "USDT token added to MetaMask on Binance Smart Chain! (Logo may not appear on Android)",
                   "success"))
  ELSE addToken_notAdded(c)

addToken_watchedAlt(c, o) ==
  IF ~o.ok THEN addToken_catch(c, o.val)
  ELSE IF o.val
  THEN addToken_finally(
         SetStatus(c, "USDT token added to MetaMask on Binance Smart Chain! (Logo may not appear on Android)",
                   "success"))
  ELSE addToken_notAdded(c)

(* The effect: initializeApp, checkConnection, checkNetwork *)
checkConnection(c) == Await(c, "detect")

initializeApp(c) == checkConnection(Push(c, "ia_afterCheckConnection"))

(* setProvider changes the effect's dependency: the effect runs again, in *)
(* the render that follows, whose closures the new run uses.              *)
useEffect_rerun(c) ==
  LET n == Spawn(c, "initializeApp", Closure(c.ui)) IN
  IF ~n.ok THEN n ELSE [Stash(initializeApp(n)) EXCEPT !.tk = c.tk, !.bag = @ (-) SetToBag({c.tk})]

setupChainChangeListener(c) == [c EXCEPT !.ls = Append(@, Tk(c).env)]

checkConnection_detected(c, ethereumProvider) ==
  IF ethereumProvider
  THEN LET c1 == [c EXCEPT !.ui.provider = TRUE, !.ui.web3 = TRUE]
           c2 == IF c.ui.provider THEN c1 ELSE useEffect_rerun(c1) IN
       Await(c2, "eth_accounts")
  ELSE Ret(SetStatus(c, "MetaMask not detected. Please install MetaMask to use this app.",
                     "error"), Undefined)

checkConnection_accounts(c, o) ==
  IF ~o.ok
  THEN Ret(SetStatus(c, getErrorMessage(o.val).userFriendly, "error"), Undefined)
  ELSE IF Len(o.val) > 0
  THEN ensureCorrectNetwork(
         Push([c EXCEPT !.ui.account = o.val[1], !.ui.isConnected = TRUE,
                        !.tk.arg = o.val[1]], "cc_afterEnsure"))
  ELSE Ret(setupChainChangeListener(c), Undefined)

checkNetwork(c) ==
  IF Tk(c).env.provider THEN Await(c, "cn_chainId") ELSE Ret(c, Undefined)

checkNetwork_chainId(c, o) ==
  IF o.ok THEN Ret([c EXCEPT !.ui.currentNetwork = getNetworkName(o.val)], Undefined)
  ELSE Ret([c EXCEPT !.ui.currentNetwork = "Unknown Network"], Undefined)

(* The listeners registered by setupChainChangeListener *)
onChainChanged(c, chainId) ==
  LET c1 == [c EXCEPT !.ui.currentNetwork = getNetworkName(chainId)] IN
  IF chainId # BSC_NETWORK.chainId /\ Tk(c).env.isConnected
  THEN switchToBSC(Push(SetStatus(c1, "Switching back to Binance Smart Chain...", "info"),
                        "chain_afterSwitch"))
  ELSE Ret(c1, Undefined)

(* Variant: the disconnection forgets the account and keeps the flag. *)
DisconnectedUi_keepsFlag(u) ==
  [u EXCEPT !.account = Null, !.balance = <<0>>,
            !.status = <<"Wallet disconnected.">>, !.statusType = "info"]

DisconnectedUi(u) ==
  [u EXCEPT !.account = Null, !.isConnected = FALSE, !.balance = <<0>>,
            !.status = <<"Wallet disconnected.">>, !.statusType = "info"]

(* Variant: an empty list of accounts is ignored. *)
onAccountsChanged_ignoresEmpty(c, accounts) ==
  IF Len(accounts) = 0 THEN Ret(c, Undefined)
  ELSE getBalance(Push([c EXCEPT !.ui.account = accounts[1], !.ui.isConnected = TRUE,
                                 !.tk.arg = accounts[1]], "ac_afterBalance"),
                  accounts[1])

onAccountsChanged(c, accounts) ==
  IF Len(accounts) = 0 THEN Ret([c EXCEPT !.ui = DisconnectedUi(@)], Undefined)
  ELSE IF accounts[1] # Tk(c).env.account
  THEN getBalance(Push([c EXCEPT !.ui.account = accounts[1], !.ui.isConnected = TRUE,
                                 !.tk.arg = accounts[1]], "ac_afterBalance"),
                  accounts[1])
  ELSE Ret(c, Undefined)

(* Variant: the disconnection forgets the network too. *)
disconnectWallet_forgetsNetwork(c) ==
  Ret([c EXCEPT !.ui = [DisconnectedUi(@) EXCEPT !.currentNetwork = ""]], Undefined)

disconnectWallet(c) == Ret([c EXCEPT !.ui = DisconnectedUi(@)], Undefined)

(* retryOperation.  `op` names the operation passed in; "operation" is an *)
(* operation of the caller's own, which settles in a step of its own.     *)
operationName(op) ==
  CASE op = "addTokenToMetaMask" -> "Add Token to MetaMask"
    [] op = "connectWallet" -> "Connect Wallet"
    [] OTHER -> "Operation"

retryOperation(c, op) ==
  IF Tk(c).env.retryCount >= maxRetries
  THEN Ret([SetStatusT(c, <<"Failed after ", NumStr(maxRetries),
                            " attempts. Please refresh the page and try again.">>,
                       "error") EXCEPT !.ui.retryCount = 0], Undefined)
  ELSE LET c1 == SetStatusT([c EXCEPT !.ui.retryCount = @ + 1],
                            <<"Retrying ", operationName(op), "... (Attempt ",
                              NumStr(Tk(c).env.retryCount + 1), "/",
                              NumStr(maxRetries), ")">>, "info")
           c2 == Push([c1 EXCEPT !.tk.op = op,
                                 !.tk.attempts = @ + 1], "rt_afterOp") IN
       CASE op = "connectWallet" -> connectWallet(c2)
         [] op = "addTokenToMetaMask" -> addTokenToMetaMask(c2)
         [] OTHER -> Await(c2, "operation")

(* Variant: the count is left as it is when the operation has returned. *)
retryOperation_afterOp_keepsCount(c) == Ret(c, Undefined)

retryOperation_afterOp(c) == Ret([c EXCEPT !.ui.retryCount = 0], Undefined)

retryOperation_catch(c, error) ==
  IF Tk(c).env.retryCount + 1 < maxRetries
  THEN Await(c, "retry_timer")
  ELSE Ret([SetStatus(c, getErrorMessage(error).userFriendly, "error")
              EXCEPT !.ui.retryCount = 0], Undefined)

(* Returning: to the caller's continuation, or out of the handler. *)
Finish(c, v) ==
  [c EXCEPT !.done = [kind |-> Tk(c).kind, issued |-> Tk(c).issued, ret |-> v,
                      op |-> Tk(c).op, arg |-> Tk(c).arg, swRet |-> Tk(c).swRet,
                      attempts |-> Tk(c).attempts, outcomes |-> Tk(c).outcomes],
            !.tk = Idle]

Continue(label, c, v) ==
  CASE label = "ia_afterCheckConnection" -> checkNetwork(Push(c, "ia_afterCheckNetwork"))
    [] label = "ia_afterCheckNetwork" -> Ret(c, Undefined)
    [] label = "cc_afterEnsure" -> getBalance(Push(c, "cc_afterBalance"), Tk(c).arg)
    [] label = "cc_afterBalance" -> Ret(setupChainChangeListener(c), Undefined)
    [] label = "cw_afterEnsure" -> connectWallet_afterEnsure(c)
    [] label = "cw_afterBalance" -> connectWallet_finally(c)
    [] label = "ac_afterBalance" -> ensureCorrectNetwork(Push(c, "ac_afterEnsure"))
    [] label = "ac_afterEnsure" -> Ret(c, Undefined)
    [] label = "en_afterSwitch" -> ensureCorrectNetwork_return(c)
    [] label = "at_afterSwitch" -> addToken_afterSwitch(c, v)
    [] label = "chain_afterSwitch" -> Ret(c, Undefined)
    [] label = "rt_afterOp" -> retryOperation_afterOp(c)

Ret(c, v) ==
  IF Tk(c).stack = <<>> THEN Finish(c, v)
  ELSE Continue(Head(Tk(c).stack), [c EXCEPT !.tk.stack = Tail(@)], v)

-----------------------------------------------------------------------------
(* The wallet (the injected provider), as the requests see it. *)

WalletAccounts(w) == IF w.authorised THEN <<w.selected>> ELSE <<>>

ChainChanged(chainId) == [type |-> "chainChanged", chainId |-> chainId, accounts |-> <<>>]
AccountsChanged(accounts) ==
  [type |-> "accountsChanged", chainId |-> "", accounts |-> accounts]

(* The read requests: the wallet's answer, or a failure in transport. *)
Faulty(e) == IF faults < MaxFaults THEN {Fail(e)} ELSE {}
ChainIdOutcomes == {Ok(wallet.chain)} \cup Faulty(ErrNetwork)
AccountsOutcomes == {Ok(WalletAccounts(wallet))} \cup Faulty(ErrInternal)
BalanceOutcomes(a) == {Ok(BalanceOf(a))} \cup Faulty(ErrNetwork)

(* What the wallet becomes when it grants a request, and what it emits. *)
Approved(w) == [w EXCEPT !.authorised = TRUE]
Switched(w) == [w EXCEPT !.chain = BSC_NETWORK.chainId, !.hasBSC = TRUE]
Emitted(w, w2) ==
  (IF w2.chain # w.chain THEN <<ChainChanged(w2.chain)>> ELSE <<>>)
  \o (IF WalletAccounts(w2) # WalletAccounts(w)
      THEN <<AccountsChanged(WalletAccounts(w2))>> ELSE <<>>)

-----------------------------------------------------------------------------
(* Steps *)

NoReq ==
  [method |-> "none", params |-> NoParams, chain |-> "", out |-> Ok(Null),
   kind |-> "", at |-> "", pc |-> ""]

ReconcilePcs == {"ensure_chainId", "switch", "switch_verify", "add", "add_verify"}

NoEvent ==
  [type |-> "none", chainId |-> "", accounts |-> <<>>, handlers |-> 0,
   was |-> [account |-> Null, isConnected |-> FALSE]]

Base(t) ==
  [ui |-> ui, tk |-> t, bag |-> tasks (-) SetToBag({t}), ls |-> listeners,
   lastSwitch |-> NoRun, ensureHist |-> NoRun, done |-> NoRun, req |-> NoReq,
   chain |-> wallet.chain, runs |-> ensureRuns, retryClicks |-> 0,
   event |-> NoEvent, ok |-> TRUE]

(* The request `method` that task t made and awaits at t.pc has been handled *)
(* by the wallet, which was on wallet.chain, with outcome o.                 *)
Handled(t, method, params, o) ==
  [Base(t) EXCEPT !.tk.log = IF t.pc \in ReconcilePcs
                               THEN Append(@, [method |-> method, params |-> params])
                               ELSE @,
                  !.tk.issued = @ \cup {[method |-> method, params |-> params]},
                  !.req = [method |-> method, params |-> params,
                           chain |-> wallet.chain, out |-> o, kind |-> t.kind,
                           at |-> t.pc, pc |-> ""]]

(* What a request answered to a startup run adds to the history of the    *)
(* startup: a non-empty eth_accounts answer, the chain read of             *)
(* ensureCorrectNetwork, the balance request of getBalance.                *)
StartupFacts(req) ==
  IF req.kind # "initializeApp" THEN {}
  ELSE CASE req.at = "eth_accounts" ->
              IF req.out.ok /\ Len(req.out.val) > 0 THEN {"accounts"} ELSE {}
         [] req.at = "ensure_chainId" -> {"ensure"}
         [] req.at = "getBalance" -> {"balance"}
         [] OTHER -> {}

Commit(c) ==
  /\ c.ok
  /\ retries' = retries + c.retryClicks
  /\ lastEvent' = c.event
  /\ faults' = IF c.req # NoReq /\ c.req.out \in {Fail(ErrNetwork), Fail(ErrInternal)}
                THEN faults + 1 ELSE faults
  /\ ui' = c.ui
  /\ tasks' = Stash(c).bag
  /\ listeners' = c.ls
  /\ lastSwitch' = c.lastSwitch
  /\ ensureHist' = c.ensureHist
  /\ done' = c.done
  /\ lastReq' = IF c.req = NoReq THEN NoReq ELSE [c.req EXCEPT !.pc = c.tk.pc]
  /\ ensureRuns' = IF c.req.method \in {"wallet_switchEthereumChain",
                                         "wallet_addEthereumChain"}
                    THEN 0 ELSE c.runs
  /\ startupDid' = startupDid \cup StartupFacts(c.req)
  /\ UNCHANGED <<raw, classified>>

WalletStep(w2) ==
  /\ wallet' = w2
  /\ events' = events \o Emitted(wallet, w2)
  /\ UNCHANGED <<clicks, walletChanges>>

WalletSame == WalletStep(wallet)

At(t, pc) == t.pc = pc

CheckConnection_detect(t) ==
  /\ At(t, "detect")
  /\ Commit(checkConnection_detected(Base(t), wallet.present))
  /\ WalletSame

CheckConnection_accounts(t) ==
  /\ At(t, "eth_accounts")
  /\ \E o \in AccountsOutcomes :
       Commit(checkConnection_accounts(Handled(t, "eth_accounts", NoParams, o), o))
  /\ WalletSame

CheckNetwork_chainId(t) ==
  /\ At(t, "cn_chainId")
  /\ \E o \in ChainIdOutcomes :
       Commit(checkNetwork_chainId(Handled(t, "eth_chainId", NoParams, o), o))
  /\ WalletSame

ConnectWallet_requestAccounts(t) ==
  /\ At(t, "requestAccounts")
  /\ \/ /\ Commit(connectWallet_accounts(
                    Handled(t, "eth_requestAccounts", NoParams,
                            Ok(WalletAccounts(Approved(wallet)))),
                    Ok(WalletAccounts(Approved(wallet)))))
        /\ WalletStep(Approved(wallet))
     \/ /\ \E o \in {Fail(ErrUserRejected), Ok(<<>>)} :
             Commit(connectWallet_accounts(
                      Handled(t, "eth_requestAccounts", NoParams, o), o))
        /\ WalletSame

EnsureCorrectNetwork_chainId(t) ==
  /\ At(t, "ensure_chainId")
  /\ \E o \in ChainIdOutcomes :
       Commit(ensureCorrectNetwork_chainId(Handled(t, "eth_chainId", NoParams, o), o))
  /\ WalletSame

SwitchParams == [chainId |-> BSC_NETWORK.chainId]

SwitchToBSC_switch(t) ==
  /\ At(t, "switch")
  /\ \/ /\ wallet.hasBSC
        /\ Commit(switchToBSC_switched(
                    Handled(t, "wallet_switchEthereumChain", SwitchParams, Ok(Null)),
                    Ok(Null)))
        /\ WalletStep(Switched(wallet))
     \/ /\ \E o \in {Fail(IF wallet.hasBSC THEN ErrUserRejected ELSE ErrUnknownChain)} :
             Commit(switchToBSC_switched(
                      Handled(t, "wallet_switchEthereumChain", SwitchParams, o), o))
        /\ WalletSame

SwitchToBSC_verify(t) ==
  /\ At(t, "switch_verify")
  /\ \E o \in ChainIdOutcomes :
       Commit(switchToBSC_verified(Handled(t, "eth_chainId", NoParams, o), o))
  /\ WalletSame

SwitchToBSC_add(t) ==
  /\ At(t, "add")
  /\ \/ /\ \E w2 \in {Switched(wallet), [wallet EXCEPT !.hasBSC = TRUE]} :
             /\ Commit(switchToBSC_added(
                         Handled(t, "wallet_addEthereumChain", BSC_NETWORK, Ok(Null)),
                         Ok(Null)))
             /\ WalletStep(w2)
     \/ /\ Commit(switchToBSC_added(
                    Handled(t, "wallet_addEthereumChain", BSC_NETWORK,
                            Fail(ErrUserRejected)), Fail(ErrUserRejected)))
        /\ WalletSame

SwitchToBSC_verifyAdd(t) ==
  /\ At(t, "add_verify")
  /\ \E o \in ChainIdOutcomes :
       Commit(switchToBSC_addVerified(Handled(t, "eth_chainId", NoParams, o), o))
  /\ WalletSame

GetBalance_fetch(t) ==
  /\ At(t, "getBalance")
  /\ \E o \in BalanceOutcomes(t.arg) :
       Commit(getBalance_settled(
                Handled(t, "eth_getBalance", [address |-> t.arg], o), o))
  /\ WalletSame

AddToken_chainId(t) ==
  /\ At(t, "at_chainId")
  /\ \E o \in ChainIdOutcomes :
       Commit(addToken_chainId(Handled(t, "eth_chainId", NoParams, o), o))
  /\ WalletSame

WatchOutcomes ==
  {Ok(TRUE), Ok(FALSE), Fail(ErrUserRejected), Fail(ErrUnsupported)} \cup Faulty(ErrInternal)

AddToken_watchAsset(t) ==
  /\ At(t, "watchAsset")
  /\ \E o \in WatchOutcomes :
       Commit(addToken_watched(
                Handled(t, "wallet_watchAsset", WatchAssetParams(TRUE), o), o))
  /\ WalletSame

AddToken_watchAssetAlt(t) ==
  /\ At(t, "watchAssetAlt")
  /\ \E o \in WatchOutcomes :
       Commit(addToken_watchedAlt(
                Handled(t, "wallet_watchAsset", WatchAssetParams(FALSE), o), o))
  /\ WalletSame

(* The user, on the page.  A click runs the handler of the current render. *)
Click(c) ==
  /\ clicks + retries < MaxClicks
  /\ clicks + retries + walletChanges < MaxUserActions
  /\ clicks' = clicks + 1
  /\ Commit(c)
  /\ UNCHANGED <<wallet, events, walletChanges>>

Fresh(kind) == Spawn(Base(Idle), kind, Closure(ui))

ClickConnectWallet ==
  /\ ~ui.isConnected /\ ~ui.isLoading
  /\ Click(connectWallet(Fresh("connectWallet")))

ClickAddToken ==
  /\ ui.isConnected /\ ~ui.isLoading
  /\ Click(addTokenToMetaMask(Fresh("addTokenToMetaMask")))

ClickSwitchToBSC ==
  /\ ui.isConnected /\ ui.currentNetwork # "Binance Smart Chain" /\ ~ui.isLoading
  /\ Click(switchToBSC(Fresh("switchToBSC")))

(* disconnectWallet is defined and not bound to a button of this page; it *)
(* is taken to be callable while the session is connected.                *)
DisconnectWallet ==
  /\ ui.isConnected
  /\ Click(disconnectWallet(Fresh("disconnectWallet")))

(* Variant: the button is rendered with every error status. *)
RetryVisible_anyCount == ui.status # <<>> /\ ui.statusType = "error"

RetryVisible == ui.status # <<>> /\ ui.statusType = "error" /\ ui.retryCount = 0

ClickRetry ==
  /\ RetryVisible
  /\ clicks + retries < MaxRetryClicks
  /\ clicks + retries + walletChanges < MaxUserActions
  /\ LET c == [Fresh("retryOperation") EXCEPT !.ui.retryCount = 0, !.retryClicks = 1] IN
     Commit(IF ~c.ok THEN c
            ELSE retryOperation(c, IF ui.isConnected THEN "addTokenToMetaMask"
                                   ELSE "connectWallet"))
  /\ UNCHANGED <<wallet, events, clicks, walletChanges>>

(* The user, in the wallet. *)
WalletUser(w2) ==
  /\ wallet.present
  /\ walletChanges < MaxWalletChanges
  /\ clicks + retries + walletChanges < MaxUserActions
  /\ walletChanges' = walletChanges + 1
  /\ wallet' = w2
  /\ events' = events \o Emitted(wallet, w2)
  /\ lastSwitch' = NoRun /\ ensureHist' = NoRun /\ done' = NoRun /\ lastReq' = NoReq
  /\ lastEvent' = NoEvent
  /\ ensureRuns' = IF w2.chain # wallet.chain THEN 0 ELSE ensureRuns
  /\ UNCHANGED <<ui, tasks, listeners, clicks, faults, retries, startupDid, raw,
                 classified>>

UserSwitchesChain ==
  \E ch \in Chains \ {wallet.chain} :
    /\ ch = BSC_NETWORK.chainId => wallet.hasBSC
    /\ WalletUser([wallet EXCEPT !.chain = ch])

UserSwitchesAccount ==
  \E a \in Accounts \ {wallet.selected} : WalletUser([wallet EXCEPT !.selected = a])

UserRevokes ==
  /\ wallet.authorised
  /\ WalletUser([wallet EXCEPT !.authorised = FALSE])

(* An emitted event reaches the page: every registered listener runs, in *)
(* the order of registration, each up to its first await.                *)
RECURSIVE Deliver(_, _, _)
Deliver(c, ev, i) ==
  IF i > Len(listeners) \/ ~c.ok THEN c
  ELSE LET n == Spawn(c, ev.type, listeners[i]) IN
       IF ~n.ok THEN n
       ELSE Deliver(IF ev.type = "chainChanged" THEN onChainChanged(n, ev.chainId)
                    ELSE onAccountsChanged(n, ev.accounts), ev, i + 1)

DeliverEvent ==
  /\ events # <<>>
  /\ LET ev == Head(events) IN
     Commit([Deliver(Base(Idle), ev, 1) EXCEPT !.event =
               [type |-> ev.type, chainId |-> ev.chainId, accounts |-> ev.accounts,
                handlers |-> Len(listeners),
                was |-> [account |-> ui.account, isConnected |-> ui.isConnected]]])
  /\ events' = Tail(events)
  /\ UNCHANGED <<wallet, clicks, walletChanges>>

-----------------------------------------------------------------------------
(* The session: start, user actions, provider events, provider responses. *)

InitWallets ==
  {w \in [present : BOOLEAN, chain : Chains, hasBSC : BOOLEAN,
          selected : {"0xA1"}, authorised : BOOLEAN] :
     /\ w.chain = BSC_NETWORK.chainId => w.hasBSC
     /\ ~w.present => (w.chain = "0x1" /\ ~w.hasBSC /\ ~w.authorised)}

EffectTask ==
  [Idle EXCEPT !.kind = "initializeApp", !.pc = "detect",
               !.stack = <<"ia_afterCheckConnection">>]

Init ==
  /\ ui = InitialUi
  /\ wallet \in InitWallets
  /\ tasks = SetToBag({EffectTask})
  /\ listeners = <<>>
  /\ events = <<>>
  /\ lastSwitch = NoRun
  /\ ensureHist = NoRun
  /\ done = NoRun
  /\ lastReq = NoReq
  /\ lastEvent = NoEvent
  /\ clicks = 0
  /\ walletChanges = 0
  /\ faults = 0
  /\ retries = 0
  /\ ensureRuns = 0
  /\ startupDid = {}
  /\ raw = NoRaw
  /\ classified = NotClassified

Next ==
  \/ \E t \in BagToSet(tasks) : CheckConnection_detect(t)
  \/ \E t \in BagToSet(tasks) : CheckConnection_accounts(t)
  \/ \E t \in BagToSet(tasks) : CheckNetwork_chainId(t)
  \/ \E t \in BagToSet(tasks) : ConnectWallet_requestAccounts(t)
  \/ \E t \in BagToSet(tasks) : EnsureCorrectNetwork_chainId(t)
  \/ \E t \in BagToSet(tasks) : SwitchToBSC_switch(t)
  \/ \E t \in BagToSet(tasks) : SwitchToBSC_verify(t)
  \/ \E t \in BagToSet(tasks) : SwitchToBSC_add(t)
  \/ \E t \in BagToSet(tasks) : SwitchToBSC_verifyAdd(t)
  \/ \E t \in BagToSet(tasks) : GetBalance_fetch(t)
  \/ \E t \in BagToSet(tasks) : AddToken_chainId(t)
  \/ \E t \in BagToSet(tasks) : AddToken_watchAsset(t)
  \/ \E t \in BagToSet(tasks) : AddToken_watchAssetAlt(t)
  \/ ClickConnectWallet
  \/ ClickAddToken
  \/ ClickSwitchToBSC
  \/ ClickRetry
  \/ DisconnectWallet
  \/ UserSwitchesChain
  \/ UserSwitchesAccount
  \/ UserRevokes
  \/ DeliverEvent

Spec == Init /\ [][Next]_vars

-----------------------------------------------------------------------------
(* retryOperation on its own: the operation passed in is the caller's, and  *)
(* each invocation of it either returns or throws.  The run starts from the *)
(* Retry button, which is rendered when an error status is shown and        *)
(* retryCount is 0 (here: the status left by the start without a wallet).   *)

OperationErrors == {ErrUserRejected, ErrUnsupported, ErrNetwork, ErrInternal}

RetrySame == UNCHANGED <<wallet, events, clicks, walletChanges>>

CallRetryOperation ==
  /\ RetryVisible
  /\ LET c == [Fresh("retryOperation") EXCEPT !.ui.retryCount = 0] IN
     Commit(IF ~c.ok THEN c ELSE retryOperation(c, "operation"))
  /\ RetrySame

Operation_returns(t) ==
  /\ At(t, "operation")
  /\ Commit(Ret([Base(t) EXCEPT !.tk.outcomes = Append(@, "ok")], Undefined))
  /\ RetrySame

Operation_throws(t) ==
  /\ At(t, "operation")
  /\ \E e \in OperationErrors :
       Commit(retryOperation_catch(
                [Base(t) EXCEPT !.tk.outcomes = Append(@, getErrorMessage(e).type),
                                !.tk.stack = Tail(@)], e))
  /\ RetrySame

(* The timer set by setTimeout(() => retryOperation(...), 2000) fires. *)
RetryTimer(t) ==
  /\ At(t, "retry_timer")
  /\ t.attempts < MaxAttempts
  /\ Commit(retryOperation(Base(t), t.op))
  /\ RetrySame

InitRetry ==
  /\ ui = [InitialUi EXCEPT
             !.status = <<"MetaMask not detected. Please install MetaMask to use this app.">>,
             !.statusType = "error"]
  /\ wallet = [present |-> FALSE, chain |-> "0x1", hasBSC |-> FALSE,
               selected |-> "0xA1", authorised |-> FALSE]
  /\ tasks = EmptyBag
  /\ listeners = <<>>
  /\ events = <<>>
  /\ lastSwitch = NoRun
  /\ ensureHist = NoRun
  /\ done = NoRun
  /\ lastReq = NoReq
  /\ lastEvent = NoEvent
  /\ clicks = 0
  /\ walletChanges = 0
  /\ faults = 0
  /\ retries = 0
  /\ ensureRuns = 0
  /\ startupDid = {}
  /\ raw = NoRaw
  /\ classified = NotClassified

NextRetry ==
  \/ CallRetryOperation
  \/ \E t \in BagToSet(tasks) : Operation_returns(t)
  \/ \E t \in BagToSet(tasks) : Operation_throws(t)
  \/ \E t \in BagToSet(tasks) : RetryTimer(t)

SpecRetry == InitRetry /\ [][NextRetry]_vars

-----------------------------------------------------------------------------
(* connectWallet on its own: the function called in a render of a session  *)
(* that has a provider, connected or not (the page binds it to a button    *)
(* rendered while the session is not connected).                           *)

ConnectSessions ==
  {[InitialUi EXCEPT !.provider = TRUE, !.web3 = TRUE, !.isConnected = b,
                     !.account = IF b THEN "0xA1" ELSE Null,
                     !.currentNetwork = n] :
     b \in BOOLEAN, n \in {"Binance Smart Chain", "Ethereum Mainnet"}}

CallConnectWallet ==
  /\ ui.provider
  /\ Click(connectWallet(Fresh("connectWallet")))

InitConnect ==
  /\ ui \in ConnectSessions
  /\ wallet \in {w \in InitWallets : w.present /\ (ui.isConnected => w.authorised)}
  /\ tasks = EmptyBag
  /\ listeners = <<>>
  /\ events = <<>>
  /\ lastSwitch = NoRun
  /\ ensureHist = NoRun
  /\ done = NoRun
  /\ lastReq = NoReq
  /\ lastEvent = NoEvent
  /\ clicks = 0
  /\ walletChanges = 0
  /\ faults = 0
  /\ retries = 0
  /\ ensureRuns = 0
  /\ startupDid = {}
  /\ raw = NoRaw
  /\ classified = NotClassified

NextConnect ==
  \/ CallConnectWallet
  \/ \E t \in BagToSet(tasks) : ConnectWallet_requestAccounts(t)
  \/ \E t \in BagToSet(tasks) : EnsureCorrectNetwork_chainId(t)
  \/ \E t \in BagToSet(tasks) : SwitchToBSC_switch(t)
  \/ \E t \in BagToSet(tasks) : SwitchToBSC_verify(t)
  \/ \E t \in BagToSet(tasks) : SwitchToBSC_add(t)
  \/ \E t \in BagToSet(tasks) : SwitchToBSC_verifyAdd(t)
  \/ \E t \in BagToSet(tasks) : GetBalance_fetch(t)
  \/ UserSwitchesChain
  \/ UserSwitchesAccount

SpecConnect == InitConnect /\ [][NextConnect]_vars

-----------------------------------------------------------------------------
(* getErrorMessage on its own: a value reaches a catch clause and is        *)
(* classified.                                                              *)

RawCodes == {0, 4001, -32601, 4902, -32603, 4100, -32002, -32000}

RawMessages ==
  {<<>>,
   <<"network", "error">>,
   <<"request", "timeout">>,
   <<"network", "timeout">>,
   <<"timeout", "of", "the", "network">>,
   <<"Network", "switch", "verification", "failed">>,
   <<"Internal", "JSON-RPC", "error.">>}

RawErrors ==
  {RawObject(code, m) : code \in RawCodes, m \in RawMessages}
  \cup {RawString(<<"network", "error">>), RawString(<<"User", "denied">>)}
  \cup {RawNull, RawUndefined}

Classify ==
  /\ raw # NoRaw
  /\ classified = NotClassified
  /\ classified' = getErrorMessage_call(raw)
  /\ UNCHANGED <<ui, wallet, tasks, listeners, events, lastSwitch, ensureHist, done,
                 lastReq, lastEvent, clicks, walletChanges, faults, retries,
                 ensureRuns, startupDid, raw>>

InitClassify ==
  /\ ui = InitialUi
  /\ wallet = [present |-> FALSE, chain |-> "0x1", hasBSC |-> FALSE,
               selected |-> "0xA1", authorised |-> FALSE]
  /\ tasks = EmptyBag
  /\ listeners = <<>>
  /\ events = <<>>
  /\ lastSwitch = NoRun
  /\ ensureHist = NoRun
  /\ done = NoRun
  /\ lastReq = NoReq
  /\ lastEvent = NoEvent
  /\ clicks = 0
  /\ walletChanges = 0
  /\ faults = 0
  /\ retries = 0
  /\ ensureRuns = 0
  /\ startupDid = {}
  /\ raw \in RawErrors
  /\ classified = NotClassified

NextClassify == Classify

SpecClassify == InitClassify /\ [][NextClassify]_vars

-----------------------------------------------------------------------------
(* Properties.  The requests, as the histories record them: *)

SwitchRequest == [method |-> "wallet_switchEthereumChain", params |-> SwitchParams]
AddRequest == [method |-> "wallet_addEthereumChain", params |-> BSC_NETWORK]
ChainIdRequest == [method |-> "eth_chainId", params |-> NoParams]
WatchRequest(withImage) ==
  [method |-> "wallet_watchAsset", params |-> WatchAssetParams(withImage)]

Target == BSC_NETWORK.chainId

(* C1: in every reachable state of the session the account is set if and   *)
(* only if isConnected is true, whatever the startup check, connectWallet, *)
(* the accountsChanged and chainChanged listeners and disconnectWallet did. *)
C1_AccountIffConnected == (ui.account # Null) <=> ui.isConnected

(* A connected session has been disconnected by disconnectWallet. *)
C1_Witness ==
  /\ done.kind = "disconnectWallet"
  /\ ui.account = Null /\ ~ui.isConnected
  /\ wallet.authorised

(* C2 (as claimed): every wallet_watchAsset request reaches the provider   *)
(* while the provider's active chain is the target chain 0x38.             *)
C2_WatchOnlyOnTarget ==
  lastReq.method = "wallet_watchAsset" => lastReq.chain = Target

(* C3: switchToBSC first issues wallet_switchEthereumChain with the target *)
(* chain id; wallet_addEthereumChain follows exactly when that switch      *)
(* failed with code 4902, and carries BSC_NETWORK; true is returned only   *)
(* in the step in which an eth_chainId read after the switch or the add    *)
(* gave the target; the requests of a call are in one of the orders        *)
(* switch, switch-read, switch-add, switch-add-read.                       *)
C3_ReconcileOrder ==
  /\ lastSwitch.kind = "switchToBSC" =>
        /\ lastSwitch.log \in {<<>>, <<SwitchRequest>>,
                                <<SwitchRequest, ChainIdRequest>>,
                                <<SwitchRequest, AddRequest>>,
                                <<SwitchRequest, AddRequest, ChainIdRequest>>}
        /\ lastSwitch.ret = "true" =>
              /\ lastSwitch.log \in {<<SwitchRequest, ChainIdRequest>>,
                                      <<SwitchRequest, AddRequest, ChainIdRequest>>}
              /\ lastReq.method = "eth_chainId"
              /\ lastReq.at \in {"switch_verify", "add_verify"}
              /\ lastReq.out = Ok(Target)
  /\ lastReq.method = "wallet_switchEthereumChain" =>
        /\ lastReq.params = [chainId |-> Target]
        /\ (lastReq.pc = "add") <=> (~lastReq.out.ok /\ lastReq.out.val.code = 4902)
  /\ lastReq.pc = "add" => lastReq.method = "wallet_switchEthereumChain"
  /\ lastReq.method = "wallet_addEthereumChain" =>
        /\ lastReq.at = "add"
        /\ lastReq.params = BSC_NETWORK

(* The scenario: on chain 0x1, the wallet not knowing 0x38, the call made  *)
(* switch, add, read, in this order, and returned true.                    *)
C3_Witness ==
  /\ lastSwitch.kind = "switchToBSC"
  /\ lastSwitch.log = <<SwitchRequest, AddRequest, ChainIdRequest>>
  /\ lastSwitch.ret = "true"
  /\ lastReq.out = Ok("0x38")

(* C4: when the chain id read after a switch or add request that returned  *)
(* without error is not the target, switchToBSC returns false in that step *)
(* and has not set the current network to the target.                      *)
C4_UnverifiedSwitchFails ==
  (/\ lastReq.at \in {"switch_verify", "add_verify"}
   /\ lastReq.out.ok
   /\ lastReq.out.val # Target)
  => /\ lastSwitch.kind = "switchToBSC"
     /\ lastSwitch.ret = "false"
     /\ ~lastSwitch.marked

(* The switch request returned, the chain was changed again in the wallet, *)
(* and the read gave 0x1.                                                   *)
C4_Witness ==
  /\ lastReq.at = "switch_verify"
  /\ lastReq.out = Ok("0x1")
  /\ lastSwitch.kind = "switchToBSC"
  /\ lastSwitch.ret = "false"

(* A call of ensureCorrectNetwork, made with a provider while the provider *)
(* was on the target chain, that saw no other chain and no failed read.    *)
EnsuredOnTarget ==
  /\ ensureHist.kind = "ensureCorrectNetwork"
  /\ ensureHist.provider
  /\ ensureHist.startedOn = Target
  /\ ensureHist.read \in {"none", Target}

C6_OneFallback ==
  /\ (/\ lastReq.at = "watchAsset"
       /\ ~lastReq.out.ok
       /\ lastReq.out.val.code # 4001)
      => /\ lastReq.pc = "watchAssetAlt"
         /\ done.kind = "none"
  /\ lastReq.at = "watchAssetAlt" =>
        /\ lastReq.method = "wallet_watchAsset"
        /\ "image" \notin DOMAIN lastReq.params.options
        /\ lastReq.pc = ""
        /\ done.kind \in {"addTokenToMetaMask", "retryOperation"}
        /\ {r \in done.issued : r.method = "wallet_watchAsset"}
             = {WatchRequest(TRUE), WatchRequest(FALSE)}
  /\ \A t \in BagToSet(tasks) :
        t.pc = "watchAssetAlt" =>
          /\ WatchRequest(TRUE) \in t.issued
          /\ WatchRequest(FALSE) \notin t.issued

(* The request with the image failed with code -32601 and the request     *)
(* without it is awaited.                                                  *)
C6_Witness ==
  /\ lastReq.at = "watchAsset"
  /\ lastReq.out = Fail(ErrUnsupported)
  /\ \E t \in BagToSet(tasks) :
        /\ t.pc = "watchAssetAlt"
        /\ WatchRequest(TRUE) \in t.issued

(* C7 (as claimed): when the first wallet_watchAsset request is rejected  *)
(* with code 4001, the handler ends with the user-rejection status and    *)
(* makes no further request.                                              *)
C7_RejectionEndsRegistration ==
  (/\ lastReq.at = "watchAsset"
   /\ ~lastReq.out.ok
   /\ lastReq.out.val.code = 4001)
  => /\ lastReq.pc = ""
     /\ ui.status = <<UserFriendly.rejected>>
     /\ ui.statusType = "error"

(* C8 (as claimed): when the request without the image fails too, the     *)
(* status is the unsupported-method one if its error has code -32601, and *)
(* otherwise a failure that is neither that nor the user-rejection one.   *)
C8_UnsupportedElseFailed ==
  (lastReq.at = "watchAssetAlt" /\ ~lastReq.out.ok)
  => /\ lastReq.pc = ""
     /\ ui.statusType = "error"
     /\ IF lastReq.out.val.code = -32601
        THEN ui.status = <<UserFriendly.unsupported>>
        ELSE ui.status \notin {<<UserFriendly.unsupported>>, <<UserFriendly.rejected>>}

(* C8 (amended): when the request without the image fails too, the handler *)
(* ends with an error status: the unsupported-method one exactly when the  *)
(* error has code -32601, the user-rejection one exactly when it has code  *)
(* 4001, and a network or unknown failure otherwise.                       *)
C8_ClassifiedByFallbackError ==
  (lastReq.at = "watchAssetAlt" /\ ~lastReq.out.ok)
  => /\ lastReq.pc = ""
     /\ ui.statusType = "error"
     /\ (ui.status = <<UserFriendly.unsupported>>) <=> (lastReq.out.val.code = -32601)
     /\ (ui.status = <<UserFriendly.rejected>>) <=> (lastReq.out.val.code = 4001)
     /\ lastReq.out.val.code \notin {-32601, 4001}
          => ui.status \in {<<UserFriendly.network>>, <<UserFriendly.timeout>>,
                            <<UserFriendly.unknown>>}

(* Both requests have failed, the second with code -32601. *)
C8_Witness ==
  /\ lastReq.at = "watchAssetAlt"
  /\ lastReq.out = Fail(ErrUnsupported)
  /\ ui.status = <<UserFriendly.unsupported>>
  /\ done.kind = "addTokenToMetaMask"
  /\ WatchRequest(TRUE) \in done.issued

(* C9 (as claimed): a run of retryOperation whose operation fails every   *)
(* time invokes it at most maxRetries times: after the third failure no   *)
(* further attempt is scheduled, and the run ends with the status 'Failed *)
(* after 3 attempts' and retryCount 0.                                    *)
C9_ThreeFailuresEnd ==
  /\ \A t \in BagToSet(tasks) :
        t.kind = "retryOperation" =>
          /\ t.attempts <= maxRetries
          /\ t.pc = "retry_timer" => Len(t.outcomes) < maxRetries
  /\ (/\ done.kind = "retryOperation"
       /\ done.outcomes # <<>>
       /\ "ok" \notin {done.outcomes[i] : i \in 1..Len(done.outcomes)})
      => /\ Len(done.outcomes) = maxRetries
         /\ ui.status[1] = "Failed after "
         /\ ui.retryCount = 0

(* C10: when the operation of a retry run returns, at whichever attempt,  *)
(* the run ends without an error status, no attempt is scheduled or in    *)
(* progress, and retryCount is 0.                                         *)
C10_SuccessResets ==
  (/\ done.kind = "retryOperation"
   /\ done.outcomes # <<>>
   /\ done.outcomes[Len(done.outcomes)] = "ok")
  => /\ ui.retryCount = 0
     /\ ui.statusType # "error"
     /\ BagToSet(tasks) = {}
     /\ done.attempts = Len(done.outcomes)

(* The operation failed at attempt 1 and returned at attempt 2. *)
C10_Witness ==
  /\ done.kind = "retryOperation"
  /\ Len(done.outcomes) = 2
  /\ done.outcomes[1] # "ok"
  /\ done.outcomes[2] = "ok"
  /\ ui.retryCount = 0

RetrySequences == {t \in BagToSet(tasks) : t.kind = "retryOperation"}

(* C11 (as claimed): when connectWallet or addTokenToMetaMask, run by      *)
(* retryOperation, fails because a provider request was rejected, and      *)
(* fewer than maxRetries attempts have been made, a further attempt is     *)
(* scheduled.                                                              *)
C11_RejectionSchedulesRetry ==
  (/\ lastReq.kind = "retryOperation"
   /\ lastReq.at \in {"requestAccounts", "at_chainId", "watchAssetAlt"}
   /\ ~lastReq.out.ok
   /\ ui.retryCount < maxRetries)
  => \E t \in RetrySequences : t.pc = "retry_timer" /\ t.attempts < maxRetries

(* C12: at most one retry sequence is active at a time: while one is       *)
(* running or waiting for its timer the Retry button is not rendered, so   *)
(* no other can be started.                                                *)
C12_OneRetrySequence ==
  \A t \in RetrySequences :
    /\ ~RetryVisible
    /\ CopiesIn(t, tasks) = 1
    /\ RetrySequences = {t}

(* A retry sequence is running while another handler has set an error     *)
(* status: the button is kept from the page by retryCount alone.           *)
C12_Witness ==
  /\ RetrySequences # {}
  /\ ui.status # <<>>
  /\ ui.statusType = "error"
  /\ ui.retryCount > 0

(* C13: an accountsChanged event with the empty list, handled by a         *)
(* registered listener, leaves account null, isConnected false and balance *)
(* '0', whatever the session was before.                                   *)
C13_EmptyAccountsDisconnect ==
  (/\ lastEvent.type = "accountsChanged"
   /\ lastEvent.accounts = <<>>
   /\ lastEvent.handlers > 0)
  => /\ ui.account = Null
     /\ ~ui.isConnected
     /\ ui.balance = <<0>>

(* A connected session with a fetched balance received the empty list. *)
C13_Witness ==
  /\ lastEvent.type = "accountsChanged"
  /\ lastEvent.accounts = <<>>
  /\ lastEvent.handlers > 0
  /\ lastEvent.was.isConnected
  /\ lastEvent.was.account = "0xA1"
  /\ ui.account = Null

(* C14 (as claimed): an accountsChanged event with a non-empty list whose  *)
(* first entry differs from the current account, handled by a registered   *)
(* listener, sets the account to that entry and starts a balance refresh   *)
(* for it (the network reconciliation follows the refresh).                *)
C14_AccountSwitchRefreshes ==
  (/\ lastEvent.type = "accountsChanged"
   /\ lastEvent.accounts # <<>>
   /\ lastEvent.handlers > 0
   /\ lastEvent.accounts[1] # lastEvent.was.account)
  => /\ ui.account = lastEvent.accounts[1]
     /\ \E t \in BagToSet(tasks) :
           /\ t.kind = "accountsChanged"
           /\ t.pc = "getBalance"
           /\ t.arg = lastEvent.accounts[1]

(* C15 (as claimed): a chainChanged event with a chain id other than the   *)
(* target, handled by a registered listener while the session is           *)
(* connected, records the chain and issues wallet_switchEthereumChain.     *)
C15_OffTargetSwitchBack ==
  (/\ lastEvent.type = "chainChanged"
   /\ lastEvent.chainId # Target
   /\ lastEvent.handlers > 0
   /\ lastEvent.was.isConnected)
  => /\ ui.currentNetwork = getNetworkName(lastEvent.chainId)
     /\ \E t \in BagToSet(tasks) : t.kind = "chainChanged" /\ t.pc = "switch"

BalanceRequest(a) == [method |-> "eth_getBalance", params |-> [address |-> a]]

(* C17: when eth_requestAccounts returns a non-empty list, connectWallet   *)
(* sets isConnected and the account to the first entry and goes on to the  *)
(* reconciliation; when connectWallet ends it has made the eth_chainId     *)
(* read of the reconciliation and the balance request for that account.    *)
C17_ConnectReconcilesAndRefreshes ==
  /\ (/\ lastReq.at = "requestAccounts"
       /\ lastReq.out.ok
       /\ lastReq.out.val # <<>>)
      => /\ ui.isConnected
         /\ ui.account = lastReq.out.val[1]
         /\ lastReq.pc = "ensure_chainId"
  /\ (/\ done.kind \in {"connectWallet", "retryOperation"}
       /\ done.arg # Null)
      => /\ [method |-> "eth_requestAccounts", params |-> NoParams] \in done.issued
         /\ ChainIdRequest \in done.issued
         /\ BalanceRequest(done.arg) \in done.issued

(* connectWallet, started by its button, has ended after a non-empty       *)
(* answer, the reconciliation and the balance request.                     *)
C17_Witness ==
  /\ done.kind = "connectWallet"
  /\ done.arg = "0xA1"
  /\ ChainIdRequest \in done.issued
  /\ BalanceRequest("0xA1") \in done.issued
  /\ lastReq.method = "eth_getBalance"

(* C18 (as claimed): when eth_requestAccounts returns the empty list or is *)
(* rejected with code 4001, connectWallet ends, not having connected, with *)
(* the user-rejection status.                                              *)
C18_EmptyOrRejectedReported ==
  (/\ lastReq.at = "requestAccounts"
   /\ IF lastReq.out.ok THEN lastReq.out.val = <<>> ELSE lastReq.out.val.code = 4001)
  => /\ lastReq.pc = ""
     /\ ui.status = <<UserFriendly.rejected>>
     /\ ui.statusType = "error"

(* C19: disconnectWallet makes no provider request and starts none; it     *)
(* sets account to null, isConnected to false and balance to '0', and      *)
(* leaves provider, web3 and currentNetwork as they were.                  *)
C19_DisconnectIsLocal ==
  [][done'.kind = "disconnectWallet" =>
       /\ ui'.account = Null
       /\ ~ui'.isConnected
       /\ ui'.balance = <<0>>
       /\ ui'.provider = ui.provider
       /\ ui'.web3 = ui.web3
       /\ ui'.currentNetwork = ui.currentNetwork
       /\ done'.issued = {}
       /\ lastReq' = NoReq
       /\ tasks' = tasks
       /\ wallet' = wallet]_vars

(* A session connected on the target chain has been disconnected. *)
C19_Witness ==
  /\ done.kind = "disconnectWallet"
  /\ ui.provider
  /\ ui.currentNetwork = "Binance Smart Chain"
  /\ ui.balance = <<0>>
  /\ ~ui.isConnected

NotDetected ==
  {<<"MetaMask not detected. Please install MetaMask to use this app.">>,
   <<"MetaMask not detected. Please install MetaMask.">>}

(* C20: when no provider is detected, no provider request is made by any   *)
(* handler, the session is never connected, and once the startup check has *)
(* run the status is an error status saying MetaMask was not detected.     *)
C20_NoProviderNoRequests ==
  ~wallet.present =>
    /\ lastReq = NoReq
    /\ ~ui.isConnected
    /\ ui.account = Null
    /\ ~ui.provider
    /\ \A t \in BagToSet(tasks) : t.pc = "detect"
    /\ tasks = EmptyBag => (ui.status \in NotDetected /\ ui.statusType = "error")

(* Without a provider the Retry button has run connectWallet. *)
C20_Witness ==
  /\ ~wallet.present
  /\ done.kind = "retryOperation"
  /\ done.op = "connectWallet"
  /\ ui.status = <<"MetaMask not detected. Please install MetaMask.">>

(* The user-facing texts of the rows of the classification table. *)
TableEntries ==
  {UserFriendly.rejected, UserFriendly.unsupported, UserFriendly.notFound,
   UserFriendly.network, UserFriendly.timeout, UserFriendly.unknown}

NoRowMatches(error) ==
  \/ error.is = "string"
  \/ /\ error.is = "object"
     /\ error.code \notin {4001, -32601, 4902}
     /\ ~includes(error.message, "network")
     /\ ~includes(error.message, "timeout")

(* C21 (as claimed): getErrorMessage is total: whatever value it is given, *)
(* it returns, without throwing, one entry of the table, and the unknown   *)
(* entry when no condition of the table matches.                           *)
C21_ClassifierTotal ==
  classified.called =>
    /\ classified.threw = ""
    /\ classified.entry.userFriendly \in TableEntries
    /\ NoRowMatches(raw) => classified.entry.type = ErrorTypes.UNKNOWN_ERROR

(* The row of the table whose condition a value meets, read as the spec's  *)
(* rows are: each row by its own condition.                                *)
Row(error) ==
  CASE error.is # "object" -> "none"
    [] error.code = 4001 -> "4001"
    [] error.code = -32601 -> "-32601"
    [] error.code = 4902 -> "4902"
    [] includes(error.message, "network") -> "network"
    [] includes(error.message, "timeout") -> "timeout"
    [] OTHER -> "none"

DistinctRows == {"4902", "network", "timeout", "-32601"}

OtherRows(error) ==
  {e \in RawErrors : Row(e) \in DistinctRows /\ Row(e) # Row(error)}

(* C22 (as claimed): the kinds given to code 4902, to a message containing *)
(* "network", to a message containing "timeout" and to code -32601 are     *)
(* pairwise distinct: the type of the entry returned for a value of one of *)
(* these rows differs from the type returned for any value of another.     *)
C22_KindsDistinct ==
  (classified.called /\ Row(raw) \in DistinctRows) =>
    \A e \in OtherRows(raw) :
      getErrorMessage_call(e).entry.type # classified.entry.type

(* C22 (amended): the entries given to these four rows are pairwise        *)
(* distinct in their message and their user-facing text; their type is     *)
(* NETWORK_ERROR for code 4902, for "network" and for "timeout" alike, and *)
(* PROVIDER_ERROR for code -32601.                                         *)
C22_EntriesDistinct ==
  (classified.called /\ Row(raw) \in DistinctRows) =>
    /\ classified.threw = ""
    /\ \A e \in OtherRows(raw) :
         /\ getErrorMessage_call(e).entry.userFriendly # classified.entry.userFriendly
         /\ getErrorMessage_call(e).entry.message # classified.entry.message
    /\ classified.entry.type =
         (IF Row(raw) = "-32601" THEN ErrorTypes.PROVIDER_ERROR
          ELSE ErrorTypes.NETWORK_ERROR)
    /\ classified.entry.userFriendly =
         (CASE Row(raw) = "4902" -> UserFriendly.notFound
            [] Row(raw) = "network" -> UserFriendly.network
            [] Row(raw) = "timeout" -> UserFriendly.timeout
            [] Row(raw) = "-32601" -> UserFriendly.unsupported)

(* An error without a code whose message contains "timeout" and not        *)
(* "network" has been classified.                                          *)
C22_Witness ==
  /\ classified.called
  /\ raw = RawObject(0, <<"request", "timeout">>)
  /\ classified.entry.type = ErrorTypes.NETWORK_ERROR
  /\ classified.entry.userFriendly = UserFriendly.timeout

(* C30: when a value meets several conditions of the table the earliest    *)
(* one decides: the codes 4001, -32601 and 4902 are tested before the      *)
(* message, whatever the message contains, and "network" before "timeout". *)
C30_EarliestRowWins ==
  (classified.called /\ raw.is = "object") =>
    /\ raw.code = 4001 =>
          /\ classified.entry.type = ErrorTypes.USER_REJECTED
          /\ classified.entry.userFriendly = UserFriendly.rejected
    /\ raw.code = -32601 =>
          /\ classified.entry.type = ErrorTypes.PROVIDER_ERROR
          /\ classified.entry.userFriendly = UserFriendly.unsupported
    /\ raw.code = 4902 => classified.entry.userFriendly = UserFriendly.notFound
    /\ (raw.code \notin {4001, -32601, 4902} /\ includes(raw.message, "network")) =>
          /\ classified.entry.type = ErrorTypes.NETWORK_ERROR
          /\ classified.entry.userFriendly = UserFriendly.network

(* An error with code 4001 whose message contains both "network" and       *)
(* "timeout" has been classified as a rejection by the user.               *)
C30_Witness ==
  /\ classified.called
  /\ raw = RawObject(4001, <<"network", "timeout">>)
  /\ classified.entry.type = ErrorTypes.USER_REJECTED

(* C23: a failed balance request sets the balance to '0' and leaves status *)
(* and statusType as they were, in every handler that fetches the balance  *)
(* (the startup check, connectWallet, the accountsChanged listener, the    *)
(* retry of connectWallet).                                                *)
C23_BalanceFailureSilent ==
  [][(lastReq'.method = "eth_getBalance" /\ ~lastReq'.out.ok) =>
       /\ ui'.balance = <<0>>
       /\ ui'.status = ui.status
       /\ ui'.statusType = ui.statusType]_vars

(* connectWallet has ended after a failed balance request: the status is   *)
(* still the one it set before the request.                                *)
C23_Witness ==
  /\ lastReq.method = "eth_getBalance"
  /\ ~lastReq.out.ok
  /\ done.kind = "connectWallet"
  /\ ui.balance = <<0>>
  /\ ui.status = <<"Wallet connected successfully!">>
  /\ ui.statusType = "success"

(* The handlers suspended on a request of a reconciliation or of a token   *)
(* registration.                                                           *)
AttemptPcs == ReconcilePcs \cup {"at_chainId", "watchAsset", "watchAssetAlt"}

AttemptsInFlight ==
  LET S == {t \in BagToSet(tasks) : t.pc \in AttemptPcs} IN
  BagCardinality([t \in S |-> CopiesIn(t, tasks)])

(* C24 (as claimed): at most one reconciliation or token registration has  *)
(* a provider request outstanding at any time.                             *)
C24_OneAttemptInFlight == AttemptsInFlight <= 1

UserActions == {"connectWallet", "addTokenToMetaMask", "switchToBSC", "retryOperation"}

(* C25 (as claimed): a chainChanged or accountsChanged event is handled by *)
(* the listeners only when no user action has a provider request           *)
(* outstanding.                                                            *)
C25_EventsWaitForActions ==
  (lastEvent.type # "none" /\ lastEvent.handlers > 0) =>
    \A t \in BagToSet(tasks) : t.kind \notin UserActions

(* C26 (as claimed): the result of a balance request is written into the   *)
(* session only if the session is still connected with the account the     *)
(* request was made for, and a session that is not connected shows '0'.    *)
C26_StaleResultsDiscarded ==
  /\ (lastReq.method = "eth_getBalance" /\ lastReq.out.ok) =>
        /\ ui.isConnected
        /\ ui.account = lastReq.params.address
  /\ ~ui.isConnected => ui.balance = <<0>>

(* C27: no request of switchToBSC or ensureCorrectNetwork, whatever its    *)
(* outcome, changes account, isConnected or balance.                       *)
C27_ReconciliationKeepsSession ==
  [][lastReq'.at \in ReconcilePcs =>
       /\ ui'.account = ui.account
       /\ ui'.isConnected = ui.isConnected
       /\ ui'.balance = ui.balance]_vars

(* A connected session whose switch was refused: it stays connected, on    *)
(* the other chain.                                                        *)
C27_Witness ==
  /\ lastSwitch.kind = "switchToBSC"
  /\ lastSwitch.ret = "false"
  /\ ui.isConnected
  /\ ui.account = "0xA1"
  /\ ui.balance # <<0>>
  /\ wallet.chain # Target

(* C28 (as claimed): when a handler in which switchToBSC returned false    *)
(* ends, the status is an error status.                                    *)
C28_FailedReconciliationReported ==
  (/\ done.kind \in {"connectWallet", "accountsChanged", "chainChanged",
                     "addTokenToMetaMask", "retryOperation"}
   /\ done.swRet = "false")
  => ui.statusType = "error"

(* C29: a provider error does not end the controller: when connectWallet   *)
(* or addTokenToMetaMask ends, by itself or run by retryOperation, after   *)
(* whatever errors, isLoading is false, the session is connected exactly   *)
(* if an account is known, and the button of the next action (connect when *)
(* not connected, add token when connected) is not disabled; a failed      *)
(* request of theirs ends the handler in that step unless a fallback       *)
(* request follows.                                                        *)
C29_FailureNotTerminal ==
  /\ (done.kind \in {"connectWallet", "addTokenToMetaMask", "retryOperation"}) =>
        /\ ~ui.isLoading
        /\ ui.isConnected <=> (ui.account # Null)
  /\ (/\ lastReq.kind \in {"connectWallet", "addTokenToMetaMask", "retryOperation"}
       /\ ~lastReq.out.ok)
      => \/ lastReq.pc = "" /\ done.kind = lastReq.kind /\ ~ui.isLoading
         \/ lastReq.at = "switch" /\ lastReq.pc = "add"
         \/ lastReq.at = "watchAsset" /\ lastReq.pc = "watchAssetAlt"
         \/ lastReq.at \in ReconcilePcs /\ lastReq.pc = "getBalance"

(* connectWallet has ended on a rejected request: the page is not loading, *)
(* not connected, and the Connect button can be used again.                *)
C29_Witness ==
  /\ done.kind = "connectWallet"
  /\ lastReq.at = "requestAccounts"
  /\ lastReq.out = Fail(ErrUserRejected)
  /\ ~ui.isLoading
  /\ ~ui.isConnected
  /\ ui.statusType = "error"

(* No startup run (the effect's initializeApp) is in flight any more. *)
StartupOver == \A t \in BagToSet(tasks) : t.kind # "initializeApp"

(* C31 (as claimed): the session starts empty; a non-empty eth_accounts    *)
(* answer at startup connects the session with the first account, and by   *)
(* the time the startup is over the chain read of a reconciliation and a   *)
(* balance request have been made by the startup; an empty answer leaves a *)
(* session no one has touched disconnected.                                *)
C31_SessionRebuiltAtStart ==
  /\ (tasks = SetToBag({EffectTask}) /\ clicks + retries + walletChanges = 0)
       => ui = InitialUi
  /\ (/\ lastReq.kind = "initializeApp" /\ lastReq.at = "eth_accounts"
       /\ lastReq.out.ok)
      => IF Len(lastReq.out.val) > 0
         THEN ui.isConnected /\ ui.account = lastReq.out.val[1]
         ELSE clicks + retries + walletChanges = 0 => ~ui.isConnected
  /\ (StartupOver /\ "accounts" \in startupDid)
      => {"ensure", "balance"} \subseteq startupDid

(* C32 (as claimed): an accountsChanged event whose list is not empty and  *)
(* whose first entry is the session's current address leaves the session   *)
(* as it is and starts no handler that makes a provider request (neither a *)
(* balance refresh nor a reconciliation).                                  *)
C32_SameAccountIgnored ==
  [][(/\ lastEvent'.type = "accountsChanged"
      /\ lastEvent'.handlers > 0
      /\ Len(lastEvent'.accounts) > 0
      /\ lastEvent'.accounts[1] = lastEvent'.was.account)
     => ui' = ui /\ tasks' = tasks]_vars

WatchPcs == {"watchAsset", "watchAssetAlt"}

(* C33: when switchToBSC, called by addTokenToMetaMask (directly or as the *)
(* operation of retryOperation) because the provider was off the target    *)
(* chain, returns false, the handler does not go on to wallet_watchAsset;  *)
(* the run of addTokenToMetaMask ends in that step, has issued no          *)
(* wallet_watchAsset, and leaves an error status.                          *)
C33_NoWatchAfterFailedSwitch ==
  (/\ lastSwitch.kind = "switchToBSC"
   /\ lastSwitch.ret = "false"
   /\ lastSwitch.caller \in {"addTokenToMetaMask", "retryOperation"})
  => /\ lastReq.pc \notin WatchPcs
     /\ (\/ lastSwitch.caller = "addTokenToMetaMask"
         \/ done.kind = "retryOperation" /\ done.op = "addTokenToMetaMask")
        => /\ done.kind = lastSwitch.caller
           /\ WatchRequest(TRUE) \notin done.issued
           /\ WatchRequest(FALSE) \notin done.issued
           /\ ui.statusType = "error"
           /\ ~ui.isLoading

(* addTokenToMetaMask read chain 0x1, the switch was refused by the user,  *)
(* and the run has ended with an error status and no wallet_watchAsset.    *)
C33_Witness ==
  /\ lastSwitch.kind = "switchToBSC"
  /\ lastSwitch.ret = "false"
  /\ lastSwitch.caller = "addTokenToMetaMask"
  /\ lastReq.at = "switch"
  /\ lastReq.out = Fail(ErrUserRejected)
  /\ done.kind = "addTokenToMetaMask"
  /\ ChainIdRequest \in done.issued
  /\ SwitchRequest \in done.issued
  /\ ui.statusType = "error"
  /\ wallet.chain # Target

(* C34: when the first wallet_watchAsset (with the image) resolves with a  *)
(* falsy value, the handler ends in that step with the error status 'Token *)
(* was not added. Please try again.' and has issued no request without the *)
(* image; the request without the image follows only a first request that  *)
(* threw.                                                                  *)
C34_FalsyResultNoFallback ==
  /\ (lastReq.at = "watchAsset" /\ lastReq.out = Ok(FALSE))
      => /\ lastReq.pc = ""
         /\ done.kind = lastReq.kind
         /\ WatchRequest(FALSE) \notin done.issued
         /\ ui.status = <<"Token was not added. Please try again.">>
         /\ ui.statusType = "error"
  /\ (lastReq.pc = "watchAssetAlt")
      => lastReq.at = "watchAsset" /\ ~lastReq.out.ok

(* The wallet answered the first wallet_watchAsset with false and          *)
(* addTokenToMetaMask has ended with 'Token was not added'.                *)
C34_Witness ==
  /\ lastReq.at = "watchAsset"
  /\ lastReq.out = Ok(FALSE)
  /\ done.kind = "addTokenToMetaMask"
  /\ WatchRequest(TRUE) \in done.issued
  /\ ui.status = <<"Token was not added. Please try again.">>
  /\ ~ui.isLoading

(* C35: a handler is about to issue wallet_addEthereumChain only when the  *)
(* request it made last, in the same call of switchToBSC, was the          *)
(* wallet_switchEthereumChain and that request failed with code 4902; a    *)
(* switch that succeeded, a switch that failed with another code, and a    *)
(* verification read that failed or gave another chain are not followed by *)
(* the add request.                                                        *)
C35_AddOnlyAfter4902 ==
  /\ \A t \in BagToSet(tasks) :
       t.pc = "add" => SubSeq(t.log, t.swMark + 1, Len(t.log)) = <<SwitchRequest>>
  /\ (lastReq.pc = "add")
      => /\ lastReq.at = "switch"
         /\ ~lastReq.out.ok
         /\ lastReq.out.val.code = 4902
  /\ (lastReq.at = "switch_verify")
      => /\ lastReq.pc # "add"
         /\ (~lastReq.out.ok \/ lastReq.out.val # Target)
            => /\ lastSwitch.kind = "switchToBSC"
               /\ lastSwitch.ret = "false"
               /\ lastSwitch.log = <<SwitchRequest, ChainIdRequest>>

(* The switch request succeeded and the verification read after it failed: *)
(* switchToBSC returned false without an add request.                      *)
C35_Witness ==
  /\ lastReq.at = "switch_verify"
  /\ ~lastReq.out.ok
  /\ lastSwitch.kind = "switchToBSC"
  /\ lastSwitch.ret = "false"
  /\ lastSwitch.log = <<SwitchRequest, ChainIdRequest>>

(* C36 (as claimed): the retry counter is within 0..maxRetries in every    *)
(* reachable state, whatever operation retryOperation runs and however it  *)
(* fails.                                                                  *)
C36_RetryCountBounded == ui.retryCount \in 0..maxRetries

(* The runs of connectWallet and addTokenToMetaMask, started by their      *)
(* button or by retryOperation, that have a provider request outstanding.  *)
LoadingRuns ==
  {t \in BagToSet(tasks) :
     /\ t.kind \in {"connectWallet", "addTokenToMetaMask", "retryOperation"}
     /\ t.pc # "retry_timer"}

(* C37 (as claimed): isLoading is true exactly while a run of connectWallet *)
(* or addTokenToMetaMask is in flight; in particular it is not false while  *)
(* such a run has a provider request outstanding.                           *)
C37_LoadingWhileInFlight == ui.isLoading <=> (LoadingRuns # {})

(* C38 (as claimed): at most one pair of listeners (one chainChanged and   *)
(* one accountsChanged handler, registered together) is registered on the  *)
(* provider at any time, and an event is handled by at most one of them.   *)
C38_OneListenerPair ==
  /\ Len(listeners) <= 1
  /\ lastEvent.type # "none" => lastEvent.handlers <= 1

(* C39 (as claimed): the step that follows disconnectWallet makes the      *)
(* session connected again only if it is the non-empty answer to            *)
(* connectWallet's eth_requestAccounts or the handling of an                *)
(* accountsChanged event with a non-empty list.                             *)
C39_ReconnectOnlyByConnectOrEvent ==
  [][(done.kind = "disconnectWallet" /\ ~ui.isConnected /\ ui'.isConnected)
     => \/ /\ lastReq'.at = "requestAccounts"
           /\ lastReq'.out.ok
           /\ Len(lastReq'.out.val) > 0
        \/ /\ lastEvent'.type = "accountsChanged"
           /\ lastEvent'.handlers > 0
           /\ Len(lastEvent'.accounts) > 0]_vars

====
